---- MODULE Spec2Model ----
(***************************************************************************)
(* Personal-Data-Assistant: the /upload and /chat handlers of server.py    *)
(* and the ingestion, caching and retrieval orchestration of               *)
(* chatbot/worker.py.                                                      *)
(*                                                                         *)
(* Text is a sequence of one-character strings, so that strip(), lower()   *)
(* and os.path.splitext() are computed the way the code computes them.     *)
(* A file is a sequence of bytes.  The PDF library, the vector store and   *)
(* the two remote services are collaborators: what they return is an input *)
(* of the request, chosen from small sets.                                 *)
(***************************************************************************)
EXTENDS Integers, Sequences, FiniteSets, TLC

VARIABLES
    llm_hub,                      \* worker.py:25
    embeddings,                   \* worker.py:26
    conversation_retrieval_chain, \* worker.py:27
    chat_history,                 \* worker.py:28
    vector_db,                    \* the directories under VECTOR_DB_DIR, worker.py:32
    uploads,                      \* the files under UPLOAD_FOLDER, server.py:19
    last,                         \* the request handled last and its response
    served,                       \* per document identifier: how its first "indexed" came about
    current_doc,                  \* the identifier process_document returned for last
    nreq,                         \* requests handled so far
    v_pc, v_in, v_batch_start, v_docs, v_calls, v_batches, \* one _vision_ocr_pdf call
    threads,                      \* the request each server thread is handling, and where it is
    trail                         \* what the requests handled by the threads have done so far

vars == <<llm_hub, embeddings, conversation_retrieval_chain, chat_history,
          vector_db, uploads, last, served, current_doc, nreq,
          v_pc, v_in, v_batch_start, v_docs, v_calls, v_batches, threads, trail>>

appVars == <<llm_hub, embeddings, conversation_retrieval_chain, chat_history,
             vector_db, uploads, last, served, current_doc, nreq>>

visionVars == <<v_pc, v_in, v_batch_start, v_docs, v_calls, v_batches>>

threadVars == <<threads, trail>>

(***************************************************************************)
(* Bounds of the model.                                                    *)
(***************************************************************************)
\* requests handled in one run
MaxRequests == 3
\* bytes read per f.read() call; the code reads 1024 * 1024 (server.py:29)
BlockSize == 2
\* pages of the largest document handed to _vision_ocr_pdf directly
MaxPdfPages == 4

None == [py |-> "None"]

\* a Python str value, where the code also admits None
PyStr(s) == [py |-> "str", s |-> s]

\* (v or ""): the text of a str, empty for None
OrEmpty(v) == IF v.py = "str" THEN v.s ELSE <<>>

(***************************************************************************)
(* Text.                                                                   *)
(***************************************************************************)
IsSpace(c) == c = " "

RECURSIVE LStrip(_)
LStrip(s) == IF s # <<>> /\ IsSpace(Head(s)) THEN LStrip(Tail(s)) ELSE s

RECURSIVE RStrip(_)
RStrip(s) == IF s # <<>> /\ IsSpace(s[Len(s)]) THEN RStrip(SubSeq(s, 1, Len(s) - 1)) ELSE s

\* str.strip()
Strip(s) == RStrip(LStrip(s))

LowerChar(c) ==
    CASE c = "P" -> "p"
      [] c = "D" -> "d"
      [] c = "F" -> "f"
      [] c = "C" -> "c"
      [] OTHER -> c

\* str.lower()
Lower(s) == [i \in 1..Len(s) |-> LowerChar(s[i])]

\* str.rfind("."): the last index holding a dot, 0 when there is none
RFindDot(s) ==
    LET dots == {i \in 1..Len(s) : s[i] = "."}
    IN  IF dots = {} THEN 0 ELSE CHOOSE i \in dots : \A j \in dots : j <= i

\* os.path.splitext of a name without directory separators: the extension
\* starts at the last dot, unless only dots precede that dot
SplitExt(p) ==
    LET dotIndex == RFindDot(p)
    IN  IF dotIndex > 0 /\ \E k \in 1..(dotIndex - 1) : p[k] # "."
        THEN [root |-> SubSeq(p, 1, dotIndex - 1), ext |-> SubSeq(p, dotIndex, Len(p))]
        ELSE [root |-> p, ext |-> <<>>]

PdfExt == <<".", "p", "d", "f">>

(***************************************************************************)
(* server.py: the content fingerprint.                                     *)
(***************************************************************************)
\* f.read(n) at offset pos
FileRead(bytes, pos, n) ==
    SubSeq(bytes, pos + 1, IF pos + n <= Len(bytes) THEN pos + n ELSE Len(bytes))

\* iter(lambda: f.read(1024 * 1024), b""): the blocks up to the first empty one
RECURSIVE ReadBlocks(_, _)
ReadBlocks(bytes, pos) ==
    LET chunk == FileRead(bytes, pos, BlockSize)
    IN  IF chunk = <<>> THEN <<>> ELSE <<chunk>> \o ReadBlocks(bytes, pos + Len(chunk))

\* hashlib: h.update(chunk) extends the hashed stream; the digest is taken as
\* collision free, so it stands for the stream it was computed from
HashUpdate(h, chunk) == [stream |-> h.stream \o chunk]

RECURSIVE HashAll(_, _)
HashAll(h, blocks) ==
    IF blocks = <<>> THEN h ELSE HashAll(HashUpdate(h, Head(blocks)), Tail(blocks))

HexDigest(h) == [sha256 |-> h.stream]

\* a fingerprint taken from the name the file was saved under
sha256_file_OfName(folder, path) == HexDigest(HashUpdate([stream |-> <<>>], <<path>>))

\* sha256_file(path), the file being folder[path]
sha256_file(folder, path) ==
    HexDigest(HashAll([stream |-> <<>>], ReadBlocks(folder[path], 0)))

(***************************************************************************)
(* The PDF library (fitz).  A file opens as a PDF when its first byte is   *)
(* the header byte 2; every further byte is one page: 1 a page carrying    *)
(* selectable text, 4 a page carrying two words set apart, 3 a page whose  *)
(* text layer is blank, 0 a scanned page (an image, no text layer).        *)
(***************************************************************************)
Raise(e) == [raised |-> TRUE, exc |-> e, value |-> None]

Return(v) == [raised |-> FALSE, exc |-> "", value |-> v]

\* fitz.open(pdf_path)
FitzOpen(bytes) ==
    IF bytes = <<>> THEN Raise("EmptyFileError")
    ELSE IF Head(bytes) # 2 THEN Raise("FileDataError")
    ELSE Return(Tail(bytes))

\* page.get_text("text")
PageGetText(page) ==
    CASE page = 1 -> <<"t", "x", " ">>
      [] page = 4 -> <<" ", "a", " ", " ", "b", "c">>
      [] page = 3 -> <<" ">>
      [] OTHER -> <<>>

Document(content, meta) == [page_content |-> content, metadata |-> meta]

RECURSIVE ExtractPages(_, _, _)
ExtractPages(pages, i, pdf_path) ==
    IF i > Len(pages) THEN <<>>
    ELSE LET text == Strip(PageGetText(pages[i]))
         IN  (IF text # <<>>
              THEN <<Document(text, [page |-> i, source |-> pdf_path])>>
              ELSE <<>>) \o ExtractPages(pages, i + 1, pdf_path)

\* _extract_selectable_text_documents(pdf_path)
ExtractSelectableTextDocuments(folder, pdf_path) ==
    LET pdf == FitzOpen(folder[pdf_path])
    IN  IF pdf.raised THEN pdf ELSE Return(ExtractPages(pdf.value, 1, pdf_path))

(***************************************************************************)
(* The vision fallback, _vision_ocr_pdf.                                   *)
(*                                                                         *)
(* The text of a model response is a sequence of lexemes: " " is white     *)
(* space, any other lexeme is a body whose reading by json.loads is given  *)
(* by JsonLoads.  JSON values are records tagged by t.                     *)
(***************************************************************************)
Missing == [t |-> "missing"]

JNull == [t |-> "null"]

JNum(n) == [t |-> "num", n |-> n]

JStr(s) == [t |-> "str", s |-> s]

JList(items) == [t |-> "list", items |-> items]

\* a JSON object read through .get("pages") and .get("text") only
JObj(pages, text) == [t |-> "obj", pages |-> pages, text |-> text]

JItem(text) == JObj(Missing, text)

\* json.loads(raw) for the response bodies of the model
JsonLoads(raw) ==
    CASE raw = <<"{pages:[{text:'A'},{text:'B'},{text:'C'}]}">> ->
            Return(JObj(JList(<<JItem(JStr(<<"A">>)), JItem(JStr(<<"B">>)), JItem(JStr(<<"C">>))>>), Missing))
      [] raw = <<"{pages:[{text:'A'},{text:''}]}">> ->
            Return(JObj(JList(<<JItem(JStr(<<"A">>)), JItem(JStr(<<>>))>>), Missing))
      [] raw = <<"{pages:[{text:' '},{page:2}]}">> ->
            Return(JObj(JList(<<JItem(JStr(<<" ">>)), JItem(Missing)>>), Missing))
      [] raw = <<"{pages:[{text:'A'},'B']}">> ->
            Return(JObj(JList(<<JItem(JStr(<<"A">>)), JStr(<<"B">>)>>), Missing))
      [] raw = <<"{pages:[{text:7}]}">> ->
            Return(JObj(JList(<<JItem(JNum(7))>>), Missing))
      [] raw = <<"{pages:[]}">> -> Return(JObj(JList(<<>>), Missing))
      [] raw = <<"{pages:null}">> -> Return(JObj(JNull, Missing))
      [] raw = <<"{pages:'AB'}">> -> Return(JObj(JStr(<<"A", "B">>), Missing))
      [] raw = <<"{}">> -> Return(JObj(Missing, Missing))
      [] raw = <<"['A']">> -> Return(JList(<<JStr(<<"A">>)>>))
      [] OTHER -> Raise("JSONDecodeError")

\* the responses llm_hub.invoke may return (resp.content)
ResponseContents ==
    { <<"{pages:[{text:'A'},{text:'B'},{text:'C'}]}">>,
      <<" ", "{pages:[{text:'A'},{text:''}]}", " ">>,
      <<"{pages:[{text:' '},{page:2}]}">>,
      <<"{pages:[{text:'A'},'B']}">>,
      <<"{pages:[{text:7}]}">>,
      <<"{pages:[]}">>,
      <<"{pages:null}">>,
      <<"{pages:'AB'}">>,
      <<"{}">>,
      <<"['A']">>,
      <<"Sorry, the page is unreadable.">>,
      <<" ">>,
      <<>> }

\* data.get("pages", []): an attribute of dict alone
GetPages(data) ==
    IF data.t # "obj" THEN Raise("AttributeError")
    ELSE IF data.pages = Missing THEN Return(JList(<<>>))
    ELSE Return(data.pages)

\* what zip() iterates over: list items, the characters of a str; null and
\* numbers are not iterable
IterOf(v) ==
    CASE v.t = "list" -> Return(v.items)
      [] v.t = "str" -> Return([i \in 1..Len(v.s) |-> JStr(<<v.s[i]>>)])
      [] OTHER -> Raise("TypeError")

\* (item.get("text") or "").strip()
ItemText(item) ==
    IF item.t # "obj" THEN Raise("AttributeError")
    ELSE CASE item.text.t = "str" -> Return(Strip(item.text.s))
           [] item.text.t = "num" /\ item.text.n # 0 -> Raise("AttributeError")
           [] OTHER -> Return(<<>>)

Min(a, b) == IF a <= b THEN a ELSE b

\* lines 132-138: for item, idx in zip(pages, batch_indices); idx runs from 0
RECURSIVE PagesLoop(_, _, _, _, _)
PagesLoop(items, k, idx, batch_end, pdf_path) ==
    IF k > Len(items) \/ idx >= batch_end THEN [raised |-> FALSE, docs |-> <<>>]
    ELSE LET text == ItemText(items[k])
         IN  IF text.raised THEN [raised |-> TRUE, docs |-> <<>>]
             ELSE LET rest == PagesLoop(items, k + 1, idx + 1, batch_end, pdf_path)
                      doc  == IF text.value # <<>>
                              THEN <<Document(text.value,
                                       [page |-> idx + 1, source |-> pdf_path, ocr |-> "vision"])>>
                              ELSE <<>>
                  IN  [raised |-> rest.raised, docs |-> doc \o rest.docs]

\* the try block left by an exception, after it appended docs
Failed(docs) == [raised |-> TRUE, docs |-> docs]

\* line 132, once data.get("pages", []) was evaluated
TryPages(pages, batch_start, batch_end, pdf_path) ==
    IF pages.raised \/ IterOf(pages.value).raised THEN Failed(<<>>)
    ELSE PagesLoop(IterOf(pages.value).value, 1, batch_start, batch_end, pdf_path)

\* lines 131-132, once json.loads(raw) was evaluated
TryData(data, batch_start, batch_end, pdf_path) ==
    IF data.raised THEN Failed(<<>>)
    ELSE TryPages(GetPages(data.value), batch_start, batch_end, pdf_path)

\* lines 130-138, the try block: the Documents appended before it ended, and
\* whether it ended by raising
TryStructured(raw, batch_start, batch_end, pdf_path) ==
    TryData(JsonLoads(raw), batch_start, batch_end, pdf_path)

Digit(n) == <<"0", "1", "2", "3", "4", "5", "6", "7", "8", "9">>[n + 1]

\* str(n) of a number below 100
FormatInt(n) == IF n < 10 THEN <<Digit(n)>> ELSE <<Digit(n \div 10), Digit(n % 10)>>

\* f"{batch_start+1}-{batch_end}"
PageRange(batch_start, batch_end) ==
    FormatInt(batch_start + 1) \o <<"-">> \o FormatInt(batch_end)

\* an except block that stores nothing
RawFallback_Dropped(raw, batch_start, batch_end, pdf_path) == <<>>

\* lines 139-146, the except block
RawFallback(raw, batch_start, batch_end, pdf_path) ==
    IF raw # <<>>
    THEN <<Document(raw, [page_range |-> PageRange(batch_start, batch_end),
                          source |-> pdf_path, ocr |-> "vision_raw"])>>
    ELSE <<>>

\* lines 130-146, the try block having ended as try
WithFallback(try, raw, batch_start, batch_end, pdf_path) ==
    try.docs \o
    (IF try.raised THEN RawFallback(raw, batch_start, batch_end, pdf_path) ELSE <<>>)

\* lines 129-146: the Documents one batch appends, raw being line 127's
BatchOfRaw(raw, batch_start, batch_end, pdf_path) ==
    WithFallback(TryStructured(raw, batch_start, batch_end, pdf_path),
                 raw, batch_start, batch_end, pdf_path)

\* lines 127-146: the Documents one batch appends, given resp.content
BatchDocuments(content, batch_start, batch_end, pdf_path) ==
    BatchOfRaw(Strip(OrEmpty(content)), batch_start, batch_end, pdf_path)

\* the parameters of _vision_ocr_pdf, line 65
VisionParameters == {"pdf_path", "max_pages", "dpi", "batch_size"}

DefaultMaxPages == 20

DefaultDpi == 140

DefaultBatchSize == 3

\* binding a call's keyword arguments to the parameters: an unexpected
\* keyword is a TypeError raised before the body starts
BindVisionCall(kwargs) ==
    IF \E k \in DOMAIN kwargs : k \notin VisionParameters
    THEN Raise("TypeError")
    ELSE Return([max_pages  |-> IF "max_pages" \in DOMAIN kwargs
                                THEN kwargs["max_pages"] ELSE DefaultMaxPages,
                 dpi        |-> IF "dpi" \in DOMAIN kwargs
                                THEN kwargs["dpi"] ELSE DefaultDpi,
                 batch_size |-> IF "batch_size" \in DOMAIN kwargs
                                THEN kwargs["batch_size"] ELSE DefaultBatchSize])

\* what llm_hub.invoke does for one batch: a response whose content is a str
\* or None, or an error of the service
ServiceError == [py |-> "APIError"]

InvokeOutcomes == {PyStr(c) : c \in ResponseContents} \cup {None, ServiceError}

\* a batch that takes every page left, whatever batch_size
BatchEnd_Rest(batch_start, batch_size, pages_to_process) == pages_to_process

\* line 103
BatchEnd(batch_start, batch_size, pages_to_process) ==
    Min(batch_start + batch_size, pages_to_process)

\* lines 102-148 run to the end: responses[k] is the outcome of the k-th call
RECURSIVE VisionLoop(_, _, _, _, _, _)
VisionLoop(batch_start, pages_to_process, batch_size, responses, k, pdf_path) ==
    IF batch_start >= pages_to_process THEN Return(<<>>)
    ELSE IF responses[k] = ServiceError THEN Raise("APIError")
    ELSE LET rest == VisionLoop(BatchEnd(batch_start, batch_size, pages_to_process),
                                pages_to_process, batch_size, responses, k + 1, pdf_path)
         IN  IF rest.raised THEN rest
             ELSE Return(BatchDocuments(responses[k], batch_start,
                                        BatchEnd(batch_start, batch_size, pages_to_process),
                                        pdf_path)
                         \o rest.value)

\* lines 73-151, the arguments bound and the document opened
VisionBody(args, pdf, llm, responses, pdf_path) ==
    IF llm = None THEN Raise("RuntimeError")
    ELSE IF pdf.raised THEN pdf
    ELSE VisionLoop(0, Min(Len(pdf.value), args.max_pages), args.batch_size,
                    responses, 1, pdf_path)

\* the call, its keyword arguments bound as args
VisionCall(args, folder, pdf_path, llm, responses) ==
    IF args.raised THEN args
    ELSE VisionBody(args.value, FitzOpen(folder[pdf_path]), llm, responses, pdf_path)

\* _vision_ocr_pdf(pdf_path, **kwargs) as one call
VisionOcrPdf(folder, pdf_path, kwargs, llm, responses) ==
    VisionCall(BindVisionCall(kwargs), folder, pdf_path, llm, responses)

(***************************************************************************)
(* The chunker: RecursiveCharacterTextSplitter(chunk_size, chunk_overlap), *)
(* a collaborator.  Its pieces are taken from the text left to right:      *)
(* windows of at most chunk_size characters, each starting                 *)
(* chunk_size - chunk_overlap after the one before, stripped; a window of  *)
(* white space comes out as a blank piece.  The sizes are scaled down from *)
(* 900 and 120.                                                            *)
(***************************************************************************)
ChunkSize == 2

ChunkOverlap == 1

RECURSIVE SplitText(_, _)
SplitText(text, pos) ==
    IF pos > Len(text) THEN <<>>
    ELSE <<Strip(SubSeq(text, pos, Min(pos + ChunkSize - 1, Len(text))))>> \o
         (IF pos + ChunkSize - 1 >= Len(text) THEN <<>>
          ELSE SplitText(text, pos + ChunkSize - ChunkOverlap))

\* the chunks of one Document: its pieces, each with the Document's metadata
ChunksOf(pieces, meta) == [i \in 1..Len(pieces) |-> Document(pieces[i], meta)]

\* splitter.split_documents(docs)
RECURSIVE SplitDocuments(_)
SplitDocuments(docs) ==
    IF docs = <<>> THEN <<>>
    ELSE ChunksOf(SplitText(Head(docs).page_content, 1), Head(docs).metadata)
         \o SplitDocuments(Tail(docs))

\* a filter that keeps every chunk
NonEmptyChunks_All(chunks) == chunks

\* line 202: [c for c in chunks if (c.page_content or "").strip()]
NonEmptyChunks(chunks) ==
    SelectSeq(chunks, LAMBDA c : Strip(c.page_content) # <<>>)

(***************************************************************************)
(* The index store: vector_db maps each directory under VECTOR_DB_DIR to   *)
(* its files and the chunks its collection holds.                          *)
(***************************************************************************)
NoDirs == [d \in {} |-> None]

IsDir(store, dir) == dir \in DOMAIN store

ListDir(store, dir) == store[dir].files

\* a cache check that never finds an index
CacheHit_Never(store, persist_dir) == FALSE

\* line 175: os.path.isdir(persist_dir) and os.listdir(persist_dir)
CacheHit(store, persist_dir) ==
    IsDir(store, persist_dir) /\ ListDir(store, persist_dir) # {}

\* os.makedirs(persist_dir, exist_ok=True)
MakeDirs(store, dir) ==
    IF IsDir(store, dir) THEN store
    ELSE [d \in DOMAIN store \cup {dir} |->
            IF d = dir THEN [files |-> {}, chunks |-> <<>>] ELSE store[d]]

\* a build that leaves the directory without a file
WithDatabase_NoFile(store, dir, chunks) ==
    [store EXCEPT ![dir] = [files |-> @.files, chunks |-> @.chunks \o chunks]]

\* the store once the vector store has opened its database in dir
WithDatabase(store, dir, chunks) ==
    [store EXCEPT ![dir] = [files |-> @.files \cup {"chroma.sqlite3"},
                            chunks |-> @.chunks \o chunks]]

\* how a build can end: the embedding service answers, or the build fails
\* before or after the vector store wrote its database file
BuildOutcomes == {"ok", "fails_before_write", "fails_after_write"}

\* Chroma.from_documents(chunks, embedding, persist_directory) and persist()
FromDocuments(store, dir, chunks, outcome) ==
    CASE outcome = "ok" -> [raised |-> FALSE, store |-> WithDatabase(store, dir, chunks)]
      [] outcome = "fails_after_write" ->
            [raised |-> TRUE, store |-> WithDatabase(store, dir, <<>>)]
      [] OTHER -> [raised |-> TRUE, store |-> store]

\* RetrievalQA.from_chain_type over db.as_retriever(): the pipeline and the
\* index its retriever reads
Pipeline(index) == [retriever |-> index]

InMemory(chunks) == [memory |-> chunks]

(***************************************************************************)
(* worker.py: process_document and process_prompt.                         *)
(*                                                                         *)
(* env is what the collaborators do during the call: env.build is the      *)
(* outcome of the index build, env.vision the outcomes of the model calls. *)
(* The result carries the globals and the store as the call leaves them,   *)
(* and calls, the functions and collaborators whose body ran, in order.    *)
(***************************************************************************)
\* the keyword arguments of the call at line 194
VisionCallKeywords == [max_pages |-> 12, zoom |-> "1.4"]

PdResult(raised, exc, ret, chain, history, store, calls, ndocs) ==
    [raised |-> raised, exc |-> exc, ret |-> ret,
     conversation_retrieval_chain |-> chain, chat_history |-> history,
     vector_db |-> store, calls |-> calls, selectable |-> ndocs]

\* the pipeline slot assigned before the build is known to have succeeded
Persisted_BoundEarly(built, persist_dir, calls, ndocs) ==
    IF built.raised
    THEN PdResult(TRUE, "APIError", "raised", Pipeline(persist_dir),
                  <<>>, built.store, calls, ndocs)
    ELSE PdResult(FALSE, "", "indexed", Pipeline(persist_dir), <<>>, built.store,
                  calls \o <<"persist", "RetrievalQA.from_chain_type">>, ndocs)

\* lines 215-225 after a persisted build that ended as built
Persisted(built, persist_dir, calls, ndocs) ==
    IF built.raised
    THEN PdResult(TRUE, "APIError", "raised", conversation_retrieval_chain,
                  <<>>, built.store, calls, ndocs)
    ELSE PdResult(FALSE, "", "indexed", Pipeline(persist_dir), <<>>, built.store,
                  calls \o <<"persist", "RetrievalQA.from_chain_type">>, ndocs)

\* lines 205-225: build and persist the index of chunks, bind the pipeline
BuildIndex(chunks, persist_dir, env, calls, ndocs) ==
    IF persist_dir # None
    THEN Persisted(FromDocuments(MakeDirs(vector_db, persist_dir), persist_dir,
                                 chunks, env.build),
                   persist_dir, calls \o <<"makedirs", "Chroma.from_documents">>, ndocs)
    ELSE IF env.build # "ok"
    THEN PdResult(TRUE, "APIError", "raised", conversation_retrieval_chain,
                  <<>>, vector_db, calls \o <<"Chroma.from_documents">>, ndocs)
    ELSE PdResult(FALSE, "", "indexed", Pipeline(InMemory(chunks)), <<>>, vector_db,
                  calls \o <<"Chroma.from_documents", "RetrievalQA.from_chain_type">>,
                  ndocs)

Extracted(raised, exc, docs, calls, ndocs) ==
    [raised |-> raised, exc |-> exc, docs |-> docs, calls |-> calls, selectable |-> ndocs]

\* lines 194-197, the call at line 194 having ended as ocr
AfterVision(ocr, calls) ==
    IF ocr.raised THEN Extracted(TRUE, ocr.exc, <<>>, calls, 0)
    ELSE IF Len(ocr.value) = 0 THEN Extracted(TRUE, "ValueError", <<>>, calls, 0)
    ELSE Extracted(FALSE, "", ocr.value, calls, 0)

\* the functions that ran when the fallback is called: _vision_ocr_pdf's body
\* runs only if the call's arguments bind
VisionCalls(bound, calls) ==
    IF bound.raised THEN calls ELSE calls \o <<"_vision_ocr_pdf">>

\* lines 192-197, line 190 having ended as text
AfterSelectable(text, folder, document_path, env) ==
    IF text.raised
    THEN Extracted(TRUE, text.exc, <<>>, <<"_extract_selectable_text_documents">>, -1)
    ELSE IF Len(text.value) # 0
    THEN Extracted(FALSE, "", text.value, <<"_extract_selectable_text_documents">>,
                   Len(text.value))
    ELSE AfterVision(VisionOcrPdf(folder, document_path, VisionCallKeywords,
                                  llm_hub, env.vision),
                     VisionCalls(BindVisionCall(VisionCallKeywords),
                                 <<"_extract_selectable_text_documents">>))

\* lines 189-197: selectable text first, the vision fallback when it found none
ExtractDocuments(folder, document_path, env) ==
    AfterSelectable(ExtractSelectableTextDocuments(folder, document_path),
                    folder, document_path, env)

\* a cache hit that leaves the pipeline slot as it was
LoadCached_Stale(persist_dir) ==
    PdResult(FALSE, "", "cached", conversation_retrieval_chain, <<>>, vector_db,
             <<"Chroma", "RetrievalQA.from_chain_type">>, -1)

\* lines 174-187: load the persisted index and bind the pipeline to it
LoadCached(persist_dir) ==
    PdResult(FALSE, "", "cached", Pipeline(persist_dir), <<>>, vector_db,
             <<"Chroma", "RetrievalQA.from_chain_type">>, -1)

\* the index directory made before the extraction is known to have succeeded
AfterExtract_DirFirst(ex, persist_dir, env) ==
    IF ex.raised
    THEN PdResult(TRUE, ex.exc, "raised", conversation_retrieval_chain,
                  <<>>, MakeDirs(vector_db, persist_dir), ex.calls, ex.selectable)
    ELSE BuildIndex(NonEmptyChunks(SplitDocuments(ex.docs)), persist_dir, env,
                    ex.calls \o <<"split_documents">>, ex.selectable)

\* lines 199-225, lines 189-197 having ended as ex
AfterExtract(ex, persist_dir, env) ==
    IF ex.raised
    THEN PdResult(TRUE, ex.exc, "raised", conversation_retrieval_chain,
                  <<>>, vector_db, ex.calls, ex.selectable)
    ELSE BuildIndex(NonEmptyChunks(SplitDocuments(ex.docs)), persist_dir, env,
                    ex.calls \o <<"split_documents">>, ex.selectable)

\* lines 170-225, persist_dir being line 170-172's
WithPersistDir(persist_dir, folder, document_path, env) ==
    IF persist_dir # None /\ CacheHit(vector_db, persist_dir)
    THEN LoadCached(persist_dir)
    ELSE AfterExtract(ExtractDocuments(folder, document_path, env), persist_dir, env)

\* process_document(document_path, doc_id), the upload folder being folder
process_document(folder, document_path, doc_id, env) ==
    IF embeddings = None \/ llm_hub = None
    THEN PdResult(TRUE, "RuntimeError", "raised", conversation_retrieval_chain,
                  chat_history, vector_db, <<>>, -1)
    ELSE WithPersistDir(IF doc_id # None THEN doc_id ELSE None,
                        folder, document_path, env)

\* what conversation_retrieval_chain.invoke does: out["result"], or an error
\* of the service
ChainOutcomes == {ServiceError, None, PyStr(<<>>), PyStr(<<"4", "2", " ">>)}

UploadFirst == <<"Please upload a PDF first so I can answer based on it.">>

TypeQuestion == <<"Please type a question.">>

NoResponse == <<"No response.">>

Prompted(raised, value, history, invoked) ==
    [raised |-> raised, value |-> value, chat_history |-> history, invoked |-> invoked]

\* the pair put in front of the log
Answered_Prepend(prompt, answer) ==
    Prompted(FALSE, PyStr(IF answer # <<>> THEN answer ELSE NoResponse),
             <<<<prompt, answer>>>> \o chat_history, conversation_retrieval_chain)

\* lines 241-244, answer being line 241's
Answered(prompt, answer) ==
    Prompted(FALSE, PyStr(IF answer # <<>> THEN answer ELSE NoResponse),
             Append(chat_history, <<prompt, answer>>), conversation_retrieval_chain)

\* lines 235-244, prompt being line 234's
WithPrompt(prompt, outcome) ==
    IF prompt = <<>> THEN Prompted(FALSE, PyStr(TypeQuestion), chat_history, None)
    ELSE IF outcome = ServiceError
    THEN Prompted(TRUE, None, chat_history, conversation_retrieval_chain)
    ELSE Answered(prompt, Strip(OrEmpty(outcome)))

\* a pipeline check that never sees an empty slot
NoPipeline_Never(chain) == FALSE

\* line 231
NoPipeline(chain) == chain = None

\* process_prompt(prompt)
process_prompt(prompt, outcome) ==
    IF NoPipeline(conversation_retrieval_chain)
    THEN Prompted(FALSE, PyStr(UploadFirst), chat_history, None)
    ELSE WithPrompt(Strip(OrEmpty(prompt)), outcome)

(***************************************************************************)
(* server.py: the /upload and /chat handlers.                              *)
(***************************************************************************)
UploadFailedBody == [error |-> "Upload failed. Please try again."]

UploadErrorBody == [error |-> "Sorry, I couldn't process that PDF. Please try again."]

UploadOkBody == [message |-> "PDF processed successfully."]

ChatError == <<"Sorry, something went wrong. Please try again.">>

\* jsonify({"answer": msg, "response": msg, "message": msg, "bot_response": msg})
ChatBody(msg) == [answer |-> msg, response |-> msg, message |-> msg, bot_response |-> msg]

Response(status, body) == [status |-> status, body |-> body]

\* an except branch that answers with the exception it caught
UploadExcept_Detail(exc) == Response(500, [error |-> exc])

\* lines 89-91
UploadExcept(exc) == Response(500, UploadErrorBody)

\* lines 113-116
ChatExcept(exc) == Response(500, ChatBody(ChatError))

\* an extension check that lets every name through
ExtensionRejected_Never(ext) == FALSE

\* line 64: ext.lower() != ".pdf"
ExtensionRejected(ext) == Lower(ext) # PdfExt

\* lines 52-66: the requests answered 400 before anything is saved
Rejected(req) ==
    \/ ~req.has_file
    \/ req.filename = <<>>
    \/ ExtensionRejected(SplitExt(req.filename).ext)

\* the original names and the file contents a client may send
PdfNames == { <<"a", ".", "p", "d", "f">>, <<"b", ".", "P", "D", "F">> }

OtherNames == { <<>>, <<"c", ".", "d", "o", "c">>, <<".", "p", "d", "f">> }

Contents ==
    { <<>>, <<0, 0, 0>>, <<2, 1>>, <<2, 1, 0>>, <<2, 0>>, <<2, 3, 0>>, <<2, 4, 1>> }

UploadRequests ==
    {[has_file |-> FALSE, filename |-> <<>>, bytes |-> <<>>]}
    \cup [has_file : {TRUE}, filename : OtherNames, bytes : {<<>>, <<2, 1>>}]
    \cup [has_file : {TRUE}, filename : PdfNames, bytes : Contents]

\* every model call of the fallback answers alike
AllBatches(outcome) == [k \in 1..MaxPdfPages |-> outcome]

Environments ==
    [build : BuildOutcomes,
     vision : {AllBatches(PyStr(<<"{pages:[{text:'A'},{text:'B'},{text:'C'}]}">>))}]

\* how often process_document returned "indexed" for each identifier, and the
\* original name of the upload it first did so for
Record(book, doc_id, name) ==
    IF doc_id \in DOMAIN book
    THEN [book EXCEPT ![doc_id].indexed = @ + 1]
    ELSE [d \in DOMAIN book \cup {doc_id} |->
            IF d = doc_id THEN [name |-> name, indexed |-> 1] ELSE book[d]]

UploadLast(req, env, resp, saved, doc_id, had_index, pd, exc, calls, ndocs) ==
    [handler |-> "upload", req |-> req, env |-> env, status |-> resp.status,
     body |-> resp.body, saved |-> saved, doc_id |-> doc_id, had_index |-> had_index,
     pd |-> pd, exc |-> exc, calls |-> calls, selectable |-> ndocs,
     history_before |-> Len(chat_history)]

\* lines 83-91: process_document having ended as r
Processed(req, env, folder, doc_id, r) ==
    /\ uploads' = folder
    /\ conversation_retrieval_chain' = r.conversation_retrieval_chain
    /\ chat_history' = r.chat_history
    /\ vector_db' = r.vector_db
    /\ served' = IF r.ret = "indexed" THEN Record(served, doc_id, req.filename)
                 ELSE served
    /\ current_doc' = IF r.raised THEN current_doc ELSE doc_id
    /\ last' = UploadLast(req, env,
                          IF r.raised THEN UploadExcept(r.exc)
                          ELSE Response(200, UploadOkBody),
                          TRUE, doc_id,
                          /\ embeddings # None
                          /\ llm_hub # None
                          /\ doc_id \in DOMAIN vector_db
                          /\ vector_db[doc_id].files # {},
                          r.ret, r.exc, r.calls, r.selectable)

\* lines 77-91: the fingerprint of the saved file being doc_id
Fingerprinted(req, env, folder, doc_id) ==
    Processed(req, env, folder, doc_id,
              process_document(folder, Len(folder), doc_id, env))

\* lines 68-91: the upload saved under a fresh name, the folder now being folder
Saved(req, env, folder) ==
    Fingerprinted(req, env, folder, sha256_file(folder, Len(folder)))

\* upload(), lines 44-91
Upload(req, env) ==
    /\ nreq < MaxRequests
    /\ nreq' = nreq + 1
    /\ UNCHANGED <<llm_hub, embeddings>>
    /\ IF Rejected(req)
       THEN /\ last' = UploadLast(req, env, Response(400, UploadFailedBody), FALSE, None,
                                  FALSE, "none", "", <<>>, -1)
            /\ UNCHANGED <<conversation_retrieval_chain, chat_history, vector_db,
                           uploads, served, current_doc>>
       ELSE Saved(req, env, Append(uploads, req.bytes))
    /\ UNCHANGED visionVars
    /\ UNCHANGED threadVars

\* what request.get_json(force=True, silent=True) may yield
ChatPayloads ==
    { None,
      JList(<<JNum(1)>>),
      JObj(Missing, Missing) }
    \cup {[t |-> "obj", message |-> m] :
            m \in {JNull, JNum(7), JStr(<<>>), JStr(<<" ">>), JStr(<<"q">>),
                   JStr(<<" ", "w", " ">>)}}

\* data.get("message") of (get_json() or {})
GetMessage(payload) ==
    IF payload = None THEN Return(Missing)
    ELSE IF payload.t # "obj" THEN Raise("AttributeError")
    ELSE IF "message" \in DOMAIN payload THEN Return(payload.message)
    ELSE Return(Missing)

\* (m or "").strip()
MessageText(m) ==
    IF m.raised THEN m
    ELSE CASE m.value.t = "str" -> Return(Strip(m.value.s))
           [] m.value.t = "num" /\ m.value.n # 0 -> Raise("AttributeError")
           [] OTHER -> Return(<<>>)

ChatLast(payload, resp, exc, invoked, appended) ==
    [handler |-> "chat", req |-> payload, status |-> resp.status, body |-> resp.body,
     exc |-> exc, invoked |-> invoked, appended |-> appended]

\* lines 108-116: process_prompt having ended as r
Prompt(payload, r) ==
    /\ chat_history' = r.chat_history
    /\ last' = IF r.raised
               THEN ChatLast(payload, ChatExcept("APIError"), "APIError", r.invoked, FALSE)
               ELSE ChatLast(payload, Response(200, ChatBody(OrEmpty(r.value))), "",
                             r.invoked, r.chat_history # chat_history)

\* a handler that hands every message to process_prompt
Message_Unchecked(payload, prompt, outcome) ==
    IF prompt.raised
    THEN /\ last' = ChatLast(payload, ChatExcept(prompt.exc), prompt.exc, None, FALSE)
         /\ UNCHANGED chat_history
    ELSE Prompt(payload, process_prompt(PyStr(prompt.value), outcome))

\* lines 103-116: prompt being line 101's
Message(payload, prompt, outcome) ==
    IF prompt.raised
    THEN /\ last' = ChatLast(payload, ChatExcept(prompt.exc), prompt.exc, None, FALSE)
         /\ UNCHANGED chat_history
    ELSE IF prompt.value = <<>>
    THEN /\ last' = ChatLast(payload, Response(200, ChatBody(TypeQuestion)), "", None, FALSE)
         /\ UNCHANGED chat_history
    ELSE Prompt(payload, process_prompt(PyStr(prompt.value), outcome))

\* chat(), lines 94-116
Chat(payload, outcome) ==
    /\ nreq < MaxRequests
    /\ nreq' = nreq + 1
    /\ UNCHANGED <<llm_hub, embeddings, conversation_retrieval_chain, vector_db,
                   uploads, served, current_doc>>
    /\ Message(payload, MessageText(GetMessage(payload)), outcome)
    /\ UNCHANGED visionVars
    /\ UNCHANGED threadVars

\* init_llm(), lines 36-50
InitLlm ==
    /\ llm_hub = None
    /\ llm_hub' = [model |-> "gpt-4o-mini"]
    /\ embeddings' = [model |-> "OpenAIEmbeddings"]
    /\ UNCHANGED <<conversation_retrieval_chain, chat_history, vector_db, uploads,
                   last, served, current_doc, nreq>>
    /\ UNCHANGED visionVars
    /\ UNCHANGED threadVars

\* the threads of the server (app.run serves each request in a thread of its own)
Threads == {1, 2}

\* a thread between two requests
IdleThread ==
    [pc |-> "idle", doc_id |-> None, path |-> 0, miss |-> FALSE, chunks |-> <<>>,
     chain |-> None, answer |-> <<>>, ret |-> "none"]

\* no request was handled by a thread yet
NoTrail ==
    [indexed |-> NoDirs, reset_by |-> None, answered_by |-> <<>>,
     overlapped |-> FALSE, failed |-> FALSE]

ThreadsIdle ==
    /\ threads = [t \in Threads |-> IdleThread]
    /\ trail = NoTrail

VisionIdle ==
    /\ v_pc = "idle"
    /\ v_in = None
    /\ v_batch_start = 0
    /\ v_docs = <<>>
    /\ v_calls = 0
    /\ v_batches = <<>>

\* the module globals as the imports leave them, lines 25-33
AppInit ==
    /\ llm_hub = None
    /\ embeddings = None
    /\ conversation_retrieval_chain = None
    /\ chat_history = <<>>
    /\ vector_db = NoDirs
    /\ uploads = <<>>
    /\ last = [handler |-> "none"]
    /\ served = NoDirs
    /\ current_doc = None
    /\ nreq = 0

Init == AppInit /\ VisionIdle /\ ThreadsIdle

Next ==
    \/ InitLlm
    \/ \E req \in UploadRequests, env \in Environments : Upload(req, env)
    \/ \E payload \in ChatPayloads, outcome \in ChainOutcomes : Chat(payload, outcome)

Spec == Init /\ [][Next]_vars

(***************************************************************************)
(* _vision_ocr_pdf called on its own, one loop iteration per step.         *)
(* v_pc is "call" before line 73, "loop" at line 102, "returned" after     *)
(* line 151, and the name of the exception when the call raised.           *)
(***************************************************************************)
\* a page cap below the page count of the larger documents
SmallCap == 3

\* a batch size below the default
SmallBatch == 2

\* a scanned document of n pages
ScannedPdf(n) == <<2>> \o [i \in 1..n |-> 0]

VisionInputs ==
    [bytes : {<<>>} \cup {ScannedPdf(n) : n \in 0..MaxPdfPages},
     max_pages : {SmallCap, DefaultMaxPages},
     batch_size : {SmallBatch, DefaultBatchSize}]

VisionRaised == v_pc \notin {"idle", "call", "loop", "returned"}

\* line 81-82
PagesToProcess == Min(Len(FitzOpen(v_in.bytes).value), v_in.max_pages)

\* lines 73-101
VisionEnter ==
    /\ v_pc = "call"
    /\ v_pc' = IF llm_hub = None THEN "RuntimeError"
               ELSE IF FitzOpen(v_in.bytes).raised THEN FitzOpen(v_in.bytes).exc
               ELSE "loop"
    /\ UNCHANGED <<v_in, v_batch_start, v_docs, v_calls, v_batches>>
    /\ UNCHANGED appVars
    /\ UNCHANGED threadVars

\* what one iteration leaves behind: its page range, the response and the
\* Documents it appended
Batch(batch_start, batch_end, content, docs) ==
    [batch_start |-> batch_start, batch_end |-> batch_end, content |-> content,
     docs |-> docs]

\* lines 102-148, one iteration, the model call ending as outcome
VisionBatch(outcome) ==
    /\ v_pc = "loop"
    /\ v_batch_start < PagesToProcess
    /\ v_calls' = v_calls + 1
    /\ IF outcome = ServiceError
       THEN /\ v_pc' = "APIError"
            /\ UNCHANGED <<v_batch_start, v_docs, v_batches>>
       ELSE /\ v_pc' = "loop"
            /\ v_batch_start' = BatchEnd(v_batch_start, v_in.batch_size, PagesToProcess)
            /\ v_docs' = v_docs \o BatchDocuments(outcome, v_batch_start, v_batch_start', 1)
            /\ v_batches' = Append(v_batches,
                                   Batch(v_batch_start, v_batch_start', outcome,
                                         BatchDocuments(outcome, v_batch_start,
                                                        v_batch_start', 1)))
    /\ UNCHANGED v_in
    /\ UNCHANGED appVars
    /\ UNCHANGED threadVars

\* lines 102 and 150-151: the loop ends and the Documents are returned
VisionReturn ==
    /\ v_pc = "loop"
    /\ v_batch_start >= PagesToProcess
    /\ v_pc' = "returned"
    /\ UNCHANGED <<v_in, v_batch_start, v_docs, v_calls, v_batches>>
    /\ UNCHANGED appVars
    /\ UNCHANGED threadVars

VisionInit ==
    /\ llm_hub \in {None, [model |-> "gpt-4o-mini"]}
    /\ embeddings = None
    /\ conversation_retrieval_chain = None
    /\ chat_history = <<>>
    /\ vector_db = NoDirs
    /\ uploads = <<>>
    /\ last = [handler |-> "none"]
    /\ served = NoDirs
    /\ current_doc = None
    /\ nreq = 0
    /\ v_pc = "call"
    /\ v_in \in VisionInputs
    /\ v_batch_start = 0
    /\ v_docs = <<>>
    /\ v_calls = 0
    /\ v_batches = <<>>
    /\ ThreadsIdle

VisionNext ==
    \/ VisionEnter
    \/ \E outcome \in InvokeOutcomes : VisionBatch(outcome)
    \/ VisionReturn

SpecVision == VisionInit /\ [][VisionNext]_vars

\* the call runs in one thread, which takes its next step whenever it has one;
\* a model call returns or raises
SpecVisionFair == SpecVision /\ WF_vars(VisionNext)

(***************************************************************************)
(* The handlers run by the threads of the server, the globals and the      *)
(* index store shared without a lock.  A step is one access to what the    *)
(* threads share: pc names the line a thread stands before.  The requests  *)
(* are uploads that passed lines 52-66 and chats that ask a question; the  *)
(* models were initialized before the server started (lines 119-123).      *)
(***************************************************************************)
\* the files the clients upload: two documents with text, a scanned one
ThreadContents == { <<2, 1>>, <<2, 4, 1>>, <<2, 0>> }

\* the question the clients ask
ThreadPrompt == <<"q">>

ThreadEnv ==
    [build |-> "ok",
     vision |-> AllBatches(PyStr(<<"{pages:[{text:'A'},{text:'B'},{text:'C'}]}">>))]

ThreadFrame ==
    /\ UNCHANGED <<llm_hub, embeddings, last, served, current_doc>>
    /\ UNCHANGED visionVars

\* thread t starts a request while another thread is handling one
Overlaps(t) == \E u \in Threads \ {t} : threads[u].pc # "idle"

\* the thread's request ended with ret
Ended(thread, ret) == [thread EXCEPT !.pc = "idle", !.ret = ret]

\* upload(), lines 44-81: the file saved under a fresh name and fingerprinted
UploadStart(t, bytes) ==
    /\ threads[t].pc = "idle"
    /\ nreq < MaxRequests
    /\ nreq' = nreq + 1
    /\ uploads' = Append(uploads, bytes)
    /\ threads' = [threads EXCEPT ![t] =
                      [IdleThread EXCEPT !.pc = "pd_reset",
                                         !.path = Len(uploads) + 1,
                                         !.doc_id = sha256_file(Append(uploads, bytes),
                                                                Len(uploads) + 1)]]
    /\ trail' = [trail EXCEPT !.overlapped = @ \/ Overlaps(t)]
    /\ UNCHANGED <<conversation_retrieval_chain, chat_history, vector_db>>
    /\ ThreadFrame

\* process_document, lines 162-168
PdReset(t) ==
    /\ threads[t].pc = "pd_reset"
    /\ IF embeddings = None \/ llm_hub = None
       THEN /\ threads' = [threads EXCEPT ![t] = Ended(@, "raised")]
            /\ UNCHANGED <<chat_history, trail>>
       ELSE /\ chat_history' = <<>>
            /\ threads' = [threads EXCEPT ![t].pc = "pd_check"]
            /\ trail' = [trail EXCEPT !.reset_by = threads[t].doc_id,
                                      !.answered_by = <<>>]
    /\ UNCHANGED <<conversation_retrieval_chain, vector_db, uploads, nreq>>
    /\ ThreadFrame

\* process_document, lines 170-175: the cache check
PdCheck(t) ==
    /\ threads[t].pc = "pd_check"
    /\ threads' = [threads EXCEPT ![t] =
                      IF CacheHit(vector_db, @.doc_id)
                      THEN [@ EXCEPT !.pc = "pd_load"]
                      ELSE [@ EXCEPT !.pc = "pd_extract", !.miss = TRUE]]
    /\ UNCHANGED <<conversation_retrieval_chain, chat_history, vector_db, uploads,
                   nreq, trail>>
    /\ ThreadFrame

\* process_document, lines 176-187: the cached index bound
PdLoad(t) ==
    /\ threads[t].pc = "pd_load"
    /\ conversation_retrieval_chain' = Pipeline(threads[t].doc_id)
    /\ threads' = [threads EXCEPT ![t] = Ended(@, "cached")]
    /\ UNCHANGED <<chat_history, vector_db, uploads, nreq, trail>>
    /\ ThreadFrame

\* the thread once lines 189-203 ended as ex
Chunked(thread, ex) ==
    IF ex.raised THEN Ended(thread, "raised")
    ELSE [thread EXCEPT !.pc = "pd_mkdir",
                        !.chunks = NonEmptyChunks(SplitDocuments(ex.docs))]

\* process_document, lines 189-203: extraction and chunking, on the thread's own file
PdExtract(t) ==
    /\ threads[t].pc = "pd_extract"
    /\ threads' = [threads EXCEPT ![t] =
                      Chunked(@, ExtractDocuments(uploads, @.path, ThreadEnv))]
    /\ trail' = [trail EXCEPT !.failed = @ \/ threads'[t].ret = "raised"]
    /\ UNCHANGED <<conversation_retrieval_chain, chat_history, vector_db, uploads, nreq>>
    /\ ThreadFrame

\* process_document, line 208
PdMakeDirs(t) ==
    /\ threads[t].pc = "pd_mkdir"
    /\ vector_db' = MakeDirs(vector_db, threads[t].doc_id)
    /\ threads' = [threads EXCEPT ![t].pc = "pd_build"]
    /\ UNCHANGED <<conversation_retrieval_chain, chat_history, uploads, nreq, trail>>
    /\ ThreadFrame

\* the build of thread t having ended as built
Built(t, built) ==
    /\ vector_db' = built.store
    /\ threads' = [threads EXCEPT ![t] =
                      IF built.raised THEN Ended(@, "raised")
                      ELSE [@ EXCEPT !.pc = "pd_bind"]]
    /\ trail' = [trail EXCEPT !.failed = @ \/ built.raised]

\* process_document, lines 209-211: the index built and persisted
PdBuild(t, outcome) ==
    /\ threads[t].pc = "pd_build"
    /\ Built(t, FromDocuments(vector_db, threads[t].doc_id, threads[t].chunks, outcome))
    /\ UNCHANGED <<conversation_retrieval_chain, chat_history, uploads, nreq>>
    /\ ThreadFrame

\* a call that returns without binding the pipeline it built
PdBind_Skip(t) ==
    /\ threads[t].pc = "pd_bind"
    /\ threads' = [threads EXCEPT ![t] = Ended(@, "indexed")]
    /\ trail' = [trail EXCEPT !.indexed = Record(@, threads[t].doc_id, <<>>)]
    /\ UNCHANGED <<conversation_retrieval_chain, chat_history, vector_db, uploads, nreq>>
    /\ ThreadFrame

\* process_document, lines 215-225: the pipeline bound, "indexed" returned
PdBind(t) ==
    /\ threads[t].pc = "pd_bind"
    /\ conversation_retrieval_chain' = Pipeline(threads[t].doc_id)
    /\ threads' = [threads EXCEPT ![t] = Ended(@, "indexed")]
    /\ trail' = [trail EXCEPT !.indexed = Record(@, threads[t].doc_id, <<>>)]
    /\ UNCHANGED <<chat_history, vector_db, uploads, nreq>>
    /\ ThreadFrame

\* chat(), lines 94-108, the message being a question
ChatStart(t) ==
    /\ threads[t].pc = "idle"
    /\ nreq < MaxRequests
    /\ nreq' = nreq + 1
    /\ threads' = [threads EXCEPT ![t] = [IdleThread EXCEPT !.pc = "pp_check"]]
    /\ trail' = [trail EXCEPT !.overlapped = @ \/ Overlaps(t)]
    /\ UNCHANGED <<conversation_retrieval_chain, chat_history, vector_db, uploads>>
    /\ ThreadFrame

\* process_prompt, lines 231-236
PpCheck(t) ==
    /\ threads[t].pc = "pp_check"
    /\ threads' = [threads EXCEPT ![t] =
                      IF NoPipeline(conversation_retrieval_chain)
                      THEN Ended(@, "guidance")
                      ELSE [@ EXCEPT !.pc = "pp_invoke"]]
    /\ UNCHANGED <<conversation_retrieval_chain, chat_history, vector_db, uploads,
                   nreq, trail>>
    /\ ThreadFrame

\* process_prompt, lines 240-241: the pipeline read from the slot and invoked
PpInvoke(t, outcome) ==
    /\ threads[t].pc = "pp_invoke"
    /\ threads' = [threads EXCEPT ![t] =
                      IF outcome = ServiceError
                      THEN Ended([@ EXCEPT !.chain = conversation_retrieval_chain], "raised")
                      ELSE [@ EXCEPT !.pc = "pp_append",
                                     !.chain = conversation_retrieval_chain,
                                     !.answer = Strip(OrEmpty(outcome))]]
    /\ UNCHANGED <<conversation_retrieval_chain, chat_history, vector_db, uploads,
                   nreq, trail>>
    /\ ThreadFrame

\* process_prompt, lines 243-244: the pair appended to the list chat_history
\* names now
PpAppend(t) ==
    /\ threads[t].pc = "pp_append"
    /\ chat_history' = Append(chat_history, <<ThreadPrompt, threads[t].answer>>)
    /\ threads' = [threads EXCEPT ![t] = Ended(@, "answered")]
    /\ trail' = [trail EXCEPT !.answered_by = Append(@, threads[t].chain.retriever)]
    /\ UNCHANGED <<conversation_retrieval_chain, vector_db, uploads, nreq>>
    /\ ThreadFrame

ThreadsInit ==
    /\ llm_hub = [model |-> "gpt-4o-mini"]
    /\ embeddings = [model |-> "OpenAIEmbeddings"]
    /\ conversation_retrieval_chain = None
    /\ chat_history = <<>>
    /\ vector_db = NoDirs
    /\ uploads = <<>>
    /\ last = [handler |-> "none"]
    /\ served = NoDirs
    /\ current_doc = None
    /\ nreq = 0
    /\ VisionIdle
    /\ ThreadsIdle

ThreadsNext ==
    \E t \in Threads :
        \/ \E bytes \in ThreadContents : UploadStart(t, bytes)
        \/ PdReset(t)
        \/ PdCheck(t)
        \/ PdLoad(t)
        \/ PdExtract(t)
        \/ PdMakeDirs(t)
        \/ \E outcome \in BuildOutcomes : PdBuild(t, outcome)
        \/ PdBind(t)
        \/ ChatStart(t)
        \/ PpCheck(t)
        \/ \E outcome \in ChainOutcomes : PpInvoke(t, outcome)
        \/ PpAppend(t)

SpecThreads == ThreadsInit /\ [][ThreadsNext]_vars

(***************************************************************************)
(* Properties.                                                             *)
(***************************************************************************)
Range(seq) == {seq[i] : i \in 1..Len(seq)}

\* the step handles an upload that was saved and handed to process_document
UploadStep == nreq' # nreq /\ last'.handler = "upload" /\ last'.saved

\* C1: once process_document has returned "indexed" for an identifier, every
\* later call for that identifier returns "cached"; so it returns "indexed"
\* at most once per identifier.
C1_IndexedThenCached ==
    /\ [](\A d \in DOMAIN served : served[d].indexed <= 1)
    /\ [][\A d \in DOMAIN served :
            (UploadStep /\ last'.doc_id = d) => last'.pd = "cached"]_vars

\* a third call for an identifier that was indexed once is answered from the cache
C1_Witness ==
    /\ nreq = 3
    /\ Len(uploads) = 3
    /\ last.handler = "upload"
    /\ last.pd = "cached"
    /\ DOMAIN served = {last.doc_id}
    /\ served[last.doc_id].indexed = 1

\* what a build does and a cache hit must not
BuildSteps ==
    {"_extract_selectable_text_documents", "_vision_ocr_pdf", "split_documents",
     "makedirs", "Chroma.from_documents", "persist"}

\* C2: when process_document finds the directory of doc_id present and not
\* empty, it returns "cached" and runs neither the selectable-text extraction,
\* nor the vision fallback, nor the chunker, nor any index build or persist.
C2_CacheHitSkipsIngestion ==
    (last.handler = "upload" /\ last.had_index) =>
        /\ last.pd = "cached"
        /\ Range(last.calls) \cap BuildSteps = {}

C2_Witness ==
    /\ last.handler = "upload"
    /\ last.had_index
    /\ last.pd = "cached"
    /\ last.calls # <<>>

\* the digest of a file's bytes
DigestOf(bytes) == [sha256 |-> bytes]

\* C3: the identifier of an upload is the digest of its bytes, whatever its
\* original name and the name it was saved under; and an upload whose bytes
\* were indexed before, under any name, is bound to that same directory and
\* is reported "cached".
C3_KeyIsContent ==
    [][UploadStep =>
        /\ last'.doc_id = DigestOf(last'.req.bytes)
        /\ DigestOf(last'.req.bytes) \in DOMAIN served =>
              /\ last'.pd = "cached"
              /\ conversation_retrieval_chain' = Pipeline(DigestOf(last'.req.bytes))]_vars

\* the same bytes sent again under another name hit the cache
C3_Witness ==
    /\ last.handler = "upload"
    /\ last.pd = "cached"
    /\ last.doc_id \in DOMAIN served
    /\ served[last.doc_id].name # last.req.filename
    /\ Len(uploads) >= 2

\* C4: when process_document has returned for document d, chat_history is
\* empty and the pipeline is bound to d's index; and until process_document
\* returns again, every answer process_prompt produces comes from d's index.
C4_PipelineOfLastDocument ==
    /\ (last.handler = "upload" /\ last.pd \in {"cached", "indexed"}) =>
          /\ chat_history = <<>>
          /\ current_doc = last.doc_id
          /\ conversation_retrieval_chain = Pipeline(last.doc_id)
    /\ current_doc # None => conversation_retrieval_chain = Pipeline(current_doc)
    /\ (last.handler = "chat" /\ last.invoked # None) =>
          last.invoked = Pipeline(current_doc)

\* an answer served from the index of the second of two documents
C4_Witness ==
    /\ last.handler = "chat"
    /\ last.appended
    /\ last.invoked = Pipeline(current_doc)
    /\ Cardinality(DOMAIN served) = 2

\* a message the handler takes as a question: a string that is not blank
IsQuestion(payload) ==
    /\ payload # None
    /\ payload.t = "obj"
    /\ "message" \in DOMAIN payload
    /\ payload.message.t = "str"
    /\ Strip(payload.message.s) # <<>>

\* C5: while no upload has been processed successfully, /chat with a question
\* answers 200 with the fixed "upload first" message in every key and appends
\* nothing to the conversation log.
C5_UploadFirstGuidance ==
    [][(current_doc = None /\ nreq' # nreq /\ last'.handler = "chat"
            /\ IsQuestion(last'.req)) =>
        /\ last'.status = 200
        /\ last'.body = ChatBody(UploadFirst)
        /\ chat_history' = chat_history]_vars

\* the guidance is given after an upload that was saved and failed
C5_Witness ==
    /\ last.handler = "chat"
    /\ IsQuestion(last.req)
    /\ last.body = ChatBody(UploadFirst)
    /\ current_doc = None
    /\ uploads # <<>>

\* C6: on a cache miss whose selectable-text extraction has finished, the
\* vision fallback runs if and only if the extraction returned no Document.
C6_VisionIffNoText ==
    (last.handler = "upload" /\ last.selectable >= 0) =>
        (("_vision_ocr_pdf" \in Range(last.calls)) <=> (last.selectable = 0))

\* a document that opens, has a page, and has no page with selectable text
IsScanned(bytes) ==
    /\ ~FitzOpen(bytes).raised
    /\ Len(FitzOpen(bytes).value) >= 1
    /\ \A i \in 1..Len(FitzOpen(bytes).value) :
          Strip(PageGetText(FitzOpen(bytes).value[i])) = <<>>

\* C7: the upload of a scanned document, the models initialized, the vision
\* model transcribing text and the build succeeding, is indexed from the OCR
\* Documents and answered 200.
C7_ScannedPdfIndexed ==
    (/\ last.handler = "upload"
     /\ last.saved
     /\ IsScanned(last.req.bytes)
     /\ llm_hub # None
     /\ embeddings # None
     /\ last.env.build = "ok"
     /\ last.env.vision[1] = PyStr(<<"{pages:[{text:'A'},{text:'B'},{text:'C'}]}">>)) =>
        /\ last.status = 200
        /\ last.pd = "indexed"
        /\ "_vision_ocr_pdf" \in Range(last.calls)

\* the stripped text of a response
RawOf(content) == Strip(OrEmpty(content))

\* a JSON value that is an object with a "pages" list of objects
UsablePages(data) ==
    /\ data.t = "obj"
    /\ data.pages # Missing
    /\ data.pages.t = "list"
    /\ \A k \in 1..Len(data.pages.items) : data.pages.items[k].t = "obj"

\* a response that is not in the structured form: empty, not JSON, or JSON
\* without a usable "pages" list of objects
Unstructured(content) ==
    \/ RawOf(content) = <<>>
    \/ JsonLoads(RawOf(content)).raised
    \/ ~UsablePages(JsonLoads(RawOf(content)).value)

IsRawFallback(doc, raw, batch) ==
    /\ doc.page_content = raw
    /\ doc.page_content # <<>>
    /\ "page_range" \in DOMAIN doc.metadata
    /\ doc.metadata.page_range = PageRange(batch.batch_start, batch.batch_end)
    /\ doc.metadata.ocr = "vision_raw"

BadItem(item) ==
    \/ item.t # "obj"
    \/ item.text.t = "num" /\ item.text.n # 0

\* the handling of the JSON value data fails in a batch of n pages: data is
\* not an object, its "pages" is null or a number, or an element the loop
\* reaches (one of the first n) is a bad one
HandlingFails(data, n) ==
    \/ data.t # "obj"
    \/ /\ data.pages # Missing
       /\ \/ data.pages.t \in {"null", "num"}
          \/ data.pages.t = "str" /\ data.pages.s # <<>>
          \/ /\ data.pages.t = "list"
             /\ \E k \in 1..Min(n, Len(data.pages.items)) : BadItem(data.pages.items[k])

\* a response that is not empty and that json.loads or the handling fails on
Malformed(batch) ==
    /\ RawOf(batch.content) # <<>>
    /\ \/ JsonLoads(RawOf(batch.content)).raised
       \/ HandlingFails(JsonLoads(RawOf(batch.content)).value,
                        batch.batch_end - batch.batch_start)

C9_FailuresAnsweredGenerically ==
    /\ last.handler = "upload" =>
          /\ last.exc # "" => last.status = 500
          /\ last.status = 500 => last.body = UploadErrorBody
          /\ last.status \in {200, 400, 500}
    /\ last.handler = "chat" =>
          /\ last.exc # "" => last.status = 500
          /\ last.status = 500 => last.body = ChatBody(ChatError)
          /\ last.status \in {200, 500}

\* a chat that failed, every upload before it having failed too
C9_Witness ==
    /\ last.handler = "chat"
    /\ last.status = 500
    /\ last.exc # ""
    /\ Len(uploads) >= 2
    /\ current_doc = None

\* the answer to a rejected upload: 400, nothing saved, no fingerprint, no
\* call of process_document
Refused(resp) ==
    /\ resp.status = 400
    /\ ~resp.saved
    /\ resp.doc_id = None
    /\ resp.pd = "none"

Blank(chunk) == \A i \in 1..Len(chunk.page_content) : IsSpace(chunk.page_content[i])

\* the first place at which piece occurs in text, 0 when it does not occur
OffsetIn(piece, text) ==
    LET places == {o \in 1..Len(text) : /\ o + Len(piece) - 1 <= Len(text)
                                        /\ SubSeq(text, o, o + Len(piece) - 1) = piece}
    IN  IF places = {} THEN 0 ELSE CHOOSE o \in places : \A q \in places : o <= q

\* the k-th smallest element of a set of numbers
NthOf(S, k) == CHOOSE i \in S : Cardinality({j \in S : j < i}) = k - 1

\* kept holds the elements of all that are not blank, in the order of all
KeepsNonBlankInOrder(kept, all) ==
    LET idx == {i \in 1..Len(all) : ~Blank(all[i])}
    IN  /\ Len(kept) = Cardinality(idx)
        /\ \A k \in 1..Len(kept) : kept[k] = all[NthOf(idx, k)]

\* the text of the Document of docs a chunk was cut from, by its page number
TextOfPage(docs, page) ==
    LET hits == {d \in 1..Len(docs) : docs[d].metadata.page = page}
    IN  IF hits = {} THEN <<>> ELSE docs[CHOOSE d \in hits : TRUE].page_content

\* chunks follow the order of docs, and within one Document the order in
\* which their content occurs in its text
InSourceOrder(chunks, docs) ==
    /\ \A i \in 1..Len(chunks) :
          OffsetIn(chunks[i].page_content,
                   TextOfPage(docs, chunks[i].metadata.page)) > 0
    /\ \A i, j \in 1..Len(chunks) :
          i < j =>
            /\ chunks[i].metadata.page <= chunks[j].metadata.page
            /\ chunks[i].metadata.page = chunks[j].metadata.page =>
                  OffsetIn(chunks[i].page_content,
                           TextOfPage(docs, chunks[i].metadata.page))
                  <= OffsetIn(chunks[j].page_content,
                              TextOfPage(docs, chunks[j].metadata.page))

\* the Documents extracted from the upload handled last
LastDocuments == ExtractPages(FitzOpen(last.req.bytes).value, 1, Len(uploads))

\* C11: on a cache miss, no chunk handed to the index build is empty or
\* blank; the chunks are the non-blank pieces the splitter returned, in the
\* splitter's order; and they follow the order of the source Documents, then
\* the order of the text within each Document.
C11_ChunksNonBlankInOrder ==
    (last.handler = "upload" /\ last.pd = "indexed") =>
        /\ vector_db[last.doc_id].chunks # <<>>
        /\ \A i \in 1..Len(vector_db[last.doc_id].chunks) :
              ~Blank(vector_db[last.doc_id].chunks[i])
        /\ KeepsNonBlankInOrder(vector_db[last.doc_id].chunks,
                                SplitDocuments(LastDocuments))
        /\ InSourceOrder(vector_db[last.doc_id].chunks, LastDocuments)

\* a document of two pages indexed, a blank piece of its first page dropped
C11_Witness ==
    /\ last.handler = "upload"
    /\ last.pd = "indexed"
    /\ Len(LastDocuments) = 2
    /\ \E i \in 1..Len(SplitDocuments(LastDocuments)) : Blank(SplitDocuments(LastDocuments)[i])
    /\ Len(vector_db[last.doc_id].chunks) < Len(SplitDocuments(LastDocuments))
    /\ vector_db[last.doc_id].chunks[1].metadata.page = 1
    /\ vector_db[last.doc_id].chunks[Len(vector_db[last.doc_id].chunks)].metadata.page = 2

\* a request without a question: no JSON body, an object without "message",
\* or a "message" that is null, empty or white space
NoQuestion(payload) ==
    \/ payload = None
    \/ /\ payload.t = "obj"
       /\ \/ "message" \notin DOMAIN payload
          \/ payload.message.t = "null"
          \/ /\ payload.message.t = "str"
             /\ \A i \in 1..Len(payload.message.s) : IsSpace(payload.message.s[i])

\* the four keys of a /chat body hold one string
FourKeysAlike(body) ==
    /\ DOMAIN body = {"answer", "response", "message", "bot_response"}
    /\ body.answer = body.response
    /\ body.response = body.message
    /\ body.message = body.bot_response

\* C12: /chat without a question answers 200 with "Please type a question."
\* whether or not a pipeline is set, invokes no pipeline and leaves the
\* conversation log alone; and every /chat response, 200 or 500, holds one
\* string in its four keys.
C12_TypeQuestionGuidance ==
    /\ [](last.handler = "chat" =>
            /\ last.status \in {200, 500}
            /\ FourKeysAlike(last.body))
    /\ [][(nreq' # nreq /\ last'.handler = "chat" /\ NoQuestion(last'.req)) =>
            /\ last'.status = 200
            /\ last'.body.answer = TypeQuestion
            /\ last'.invoked = None
            /\ chat_history' = chat_history
            /\ conversation_retrieval_chain' = conversation_retrieval_chain]_vars

\* a blank message sent while a pipeline is set and the log holds an answer
C12_Witness ==
    /\ last.handler = "chat"
    /\ last.req = [t |-> "obj", message |-> JStr(<<" ">>)]
    /\ last.body.answer = TypeQuestion
    /\ conversation_retrieval_chain # None
    /\ chat_history # <<>>

\* a file that opens as a PDF and has no page with selectable text
NoSelectableText(bytes) ==
    /\ ~FitzOpen(bytes).raised
    /\ \A i \in 1..Len(FitzOpen(bytes).value) :
          \A k \in 1..Len(PageGetText(FitzOpen(bytes).value[i])) :
              IsSpace(PageGetText(FitzOpen(bytes).value[i])[k])

TotalPages(in) == Len(in.bytes) - 1

PageCount(in) == IF TotalPages(in) <= in.max_pages THEN TotalPages(in) ELSE in.max_pages

\* ceil(n / b)
CeilDiv(n, b) == (n + b - 1) \div b

RECURSIVE DocsOfBatches(_)
DocsOfBatches(batches) ==
    IF batches = <<>> THEN <<>> ELSE Head(batches).docs \o DocsOfBatches(Tail(batches))

\* the batches so far are consecutive from page index 0, each of batch_size
\* pages, the one reaching the last page possibly smaller, none empty
ConsecutiveBatches ==
    \A i \in 1..Len(v_batches) :
        /\ v_batches[i].batch_start = (IF i = 1 THEN 0 ELSE v_batches[i - 1].batch_end)
        /\ v_batches[i].batch_end > v_batches[i].batch_start
        /\ v_batches[i].batch_end <= PageCount(v_in)
        /\ \/ v_batches[i].batch_end - v_batches[i].batch_start = v_in.batch_size
           \/ /\ v_batches[i].batch_end - v_batches[i].batch_start < v_in.batch_size
              /\ v_batches[i].batch_end = PageCount(v_in)

\* the Documents of one batch: the "vision" ones carry page numbers of the
\* batch, in increasing order
BatchPagesInOrder(batch) ==
    /\ \A k \in 1..Len(batch.docs) :
          batch.docs[k].metadata.ocr = "vision" =>
              batch.docs[k].metadata.page \in (batch.batch_start + 1)..batch.batch_end
    /\ \A k, m \in 1..Len(batch.docs) :
          (/\ k < m
           /\ batch.docs[k].metadata.ocr = "vision"
           /\ batch.docs[m].metadata.ocr = "vision") =>
              batch.docs[k].metadata.page < batch.docs[m].metadata.page

\* what holds of a call of _vision_ocr_pdf at every moment
VisionBatching ==
    (v_pc \notin {"idle", "call"} /\ ~FitzOpen(v_in.bytes).raised /\ llm_hub # None) =>
        /\ ConsecutiveBatches
        /\ v_calls = Len(v_batches) + (IF v_pc = "APIError" THEN 1 ELSE 0)
        /\ PageCount(v_in) > 0 => v_calls <= CeilDiv(PageCount(v_in), v_in.batch_size)
        /\ v_docs = DocsOfBatches(v_batches)
        /\ \A i \in 1..Len(v_batches) : BatchPagesInOrder(v_batches[i])
        /\ v_pc = "returned" =>
              /\ v_calls = (IF PageCount(v_in) > 0
                            THEN CeilDiv(PageCount(v_in), v_in.batch_size) ELSE 0)
              /\ (IF v_batches = <<>> THEN 0 ELSE v_batches[Len(v_batches)].batch_end)
                 = (IF PageCount(v_in) > 0 THEN PageCount(v_in) ELSE 0)

\* C14: a call of _vision_ocr_pdf with a batch_size of at least 1 handles the
\* page indices [0, min(total_pages, max_pages)) in consecutive batches of
\* batch_size pages, only the last possibly smaller; makes one model call per
\* batch, ceil(n / batch_size) when it returns; appends the Documents batch by
\* batch, every "vision" Document numbered with a page of its own batch, in
\* increasing order; and ends, by returning or by raising.
C14_BatchedInOrderAndEnds ==
    /\ []VisionBatching
    /\ <>(v_pc \notin {"call", "loop"})

\* a call capped below the page count returned after a full and a smaller
\* batch, each of which contributed a Document
C14_Witness ==
    /\ v_pc = "returned"
    /\ TotalPages(v_in) > v_in.max_pages
    /\ Len(v_batches) = 2
    /\ v_calls = 2
    /\ v_batches[1].batch_end - v_batches[1].batch_start = v_in.batch_size
    /\ v_batches[2].batch_end - v_batches[2].batch_start < v_in.batch_size
    /\ v_batches[1].docs # <<>>
    /\ v_batches[2].docs # <<>>
    /\ v_docs[Len(v_docs)].metadata.ocr = "vision"

\* the step handles a /chat request
ChatStep == nreq' # nreq /\ last'.handler = "chat"

\* the step appends one pair to the log: the question as sent, stripped, and
\* the answer as returned ("No response." standing for an empty answer)
AppendsOnePair ==
    /\ Len(chat_history') = Len(chat_history) + 1
    /\ SubSeq(chat_history', 1, Len(chat_history)) = chat_history
    /\ chat_history'[Len(chat_history')][1] = Strip(last'.req.message.s)
    /\ \/ chat_history'[Len(chat_history')][2] = last'.body.answer
       \/ /\ chat_history'[Len(chat_history')][2] = <<>>
          /\ last'.body.answer = NoResponse

\* C15: the conversation log is append-only within a document's session: a
\* /chat with a question, a pipeline being set, that completes appends one
\* (question, answer) pair at the end; a /chat that is answered with a
\* guidance message or fails leaves the log as it is; and nothing else
\* changes the log but process_document, which empties it.
C15_LogAppendOnly ==
    [][/\ ChatStep =>
            IF conversation_retrieval_chain # None /\ IsQuestion(last'.req)
               /\ last'.status = 200
            THEN AppendsOnePair
            ELSE chat_history' = chat_history
       /\ ~ChatStep =>
            \/ chat_history' = chat_history
            \/ UploadStep /\ llm_hub # None /\ embeddings # None /\ chat_history' = <<>>]_vars

\* two questions answered in turn for one document
C15_Witness ==
    /\ last.handler = "chat"
    /\ Len(chat_history) = 2
    /\ chat_history[1][1] = <<"q">>
    /\ chat_history[2][1] = <<"w">>
    /\ chat_history[2][2] = <<"4", "2">>

\* C16: two process_document calls for one new identifier, run by two
\* threads without a lock, can both pass the cache check as a miss, both
\* build and persist under the one directory and both return "indexed" (the
\* state C16_Witness describes).  What holds in every state: an identifier is
\* indexed more than once only if requests overlapped, at most once per
\* thread, and only by calls whose cache check was a miss.
C16_DuplicateBuildNeedsOverlap ==
    /\ ~trail.overlapped =>
          \A d \in DOMAIN trail.indexed : trail.indexed[d].indexed <= 1
    /\ \A d \in DOMAIN trail.indexed : trail.indexed[d].indexed <= Cardinality(Threads)
    /\ \A t \in Threads : threads[t].ret = "indexed" => threads[t].miss

\* both threads missed the cache for the same identifier, both built into its
\* directory, which now holds the chunks twice, and both returned "indexed"
C16_Witness ==
    /\ \A t \in Threads :
          /\ threads[t].pc = "idle"
          /\ threads[t].ret = "indexed"
          /\ threads[t].miss
    /\ threads[1].doc_id = threads[2].doc_id
    /\ trail.indexed[threads[1].doc_id].indexed = 2
    /\ vector_db[threads[1].doc_id].chunks = threads[1].chunks \o threads[2].chunks
    /\ threads[1].chunks # <<>>

\* C17: with an upload and a chat run by two threads on the unlocked globals,
\* an answer produced by the pipeline of one document can be appended to the
\* log after process_document for another document has cleared it (the state
\* C17_Witness describes).  What holds in every state: as long as no requests
\* overlapped and no process_document call failed after its reset, every
\* answer in the log comes from the document whose processing last reset the
\* log, and between requests the pipeline slot holds that document's pipeline.
C17_WrongDocumentNeedsOverlap ==
    /\ Len(trail.answered_by) = Len(chat_history)
    /\ (~trail.overlapped /\ ~trail.failed) =>
          /\ \A i \in 1..Len(trail.answered_by) : trail.answered_by[i] = trail.reset_by
          /\ (trail.reset_by # None /\ \A t \in Threads : threads[t].pc = "idle") =>
                conversation_retrieval_chain = Pipeline(trail.reset_by)

\* a thread answered from the pipeline it had read before the other thread,
\* still processing a new document, cleared the log; no call has failed
C17_Witness ==
    /\ ~trail.failed
    /\ Len(chat_history) = 1
    /\ trail.answered_by[1] # trail.reset_by
    /\ \E t \in Threads :
          /\ threads[t].pc = "idle"
          /\ threads[t].ret = "answered"
          /\ threads[t].chain = Pipeline(trail.answered_by[1])
    /\ \E u \in Threads :
          /\ threads[u].pc \in {"pd_check", "pd_extract", "pd_mkdir", "pd_build", "pd_bind"}
          /\ threads[u].doc_id = trail.reset_by

\* the step handles an upload whose process_document call raised
FailedUploadStep == UploadStep /\ last'.pd = "raised"

\* C18 as stated: a process_document call that raises leaves
\* conversation_retrieval_chain and chat_history as they were before the call.
C18_FailedLeavesSessionUnchanged ==
    [][FailedUploadStep =>
        /\ conversation_retrieval_chain' = conversation_retrieval_chain
        /\ chat_history' = chat_history]_vars

\* C18 as amended: a process_document call that raises leaves
\* conversation_retrieval_chain as it was; chat_history is as it was only when
\* the call raised because the models are not initialized, and is empty after
\* every other failure.
C18_FailedKeepsPipeline ==
    [][FailedUploadStep =>
        /\ conversation_retrieval_chain' = conversation_retrieval_chain
        /\ chat_history' = (IF llm_hub = None \/ embeddings = None
                            THEN chat_history ELSE <<>>)
        /\ current_doc' = current_doc]_vars

\* an upload failed after a question about the document before it was
\* answered: the pipeline is still that document's, the log is empty
C18_Witness ==
    /\ last.handler = "upload"
    /\ last.pd = "raised"
    /\ last.history_before > 0
    /\ chat_history = <<>>
    /\ current_doc # None
    /\ current_doc # last.doc_id
    /\ conversation_retrieval_chain = Pipeline(current_doc)

\* C19: process_document returns "cached" for an identifier only if an
\* earlier call for that identifier returned "indexed"; a build that failed
\* part-way never makes a later upload of the same bytes a cache hit.
C19_CachedOnlyAfterIndexed ==
    (last.handler = "upload" /\ last.pd = "cached") => last.doc_id \in DOMAIN served

\* C20: what one batch of _vision_ocr_pdf contributes is either Documents
\* tagged ocr="vision" only (none, or more), or a single Document tagged
\* ocr="vision_raw"; never "vision" Documents together with the raw one.
C20_BatchIsOneVariant ==
    \A i \in 1..Len(v_batches) :
        \/ \A k \in 1..Len(v_batches[i].docs) : v_batches[i].docs[k].metadata.ocr = "vision"
        \/ /\ Len(v_batches[i].docs) = 1
           /\ v_batches[i].docs[1].metadata.ocr = "vision_raw"

====
